---- MODULE Spec2Model ----
(***************************************************************************)
(* State-synchronisation engine of the mining client.                      *)
(*                                                                         *)
(* useExpeditions (hooks/useExpeditions.ts): every mounted hook instance   *)
(* owns React state (loading, error, initialized, statuses,                *)
(* lastValidStakedMiners, cooldownTime), refs (lastFetchTimeRef,           *)
(* fetchInProgressRef, currentOpIdRef, walletRef, debouncedFetchRef), the  *)
(* browser timers it has set and the position and locals of its running    *)
(* fetch cycle.  The module variable globalOperationCounter is shared by   *)
(* all instances.  Every await of a cycle is one step of the model: the    *)
(* step takes the outcome of the awaited remote read and runs the code up  *)
(* to the next await.                                                      *)
(***************************************************************************)
EXTENDS Integers, Sequences, FiniteSets, TLC

VARIABLES
    globalOperationCounter, \* module-level counter of useExpeditions
    now,                    \* Date.now(), milliseconds
    connector,              \* RoninWalletProvider state: connector
    address,                \* RoninWalletProvider state: address
    ledger,                 \* the remote ledger read through the contracts
    rejections,             \* remote reads that have rejected so far
    hook,                   \* hook instance -> its state, refs, timers, cycle
    console,                \* the MISMATCH diagnostic written by the last step
    ended,                  \* observer: hook instance -> when its last cycle ended
    owed,                   \* observer: hook instance -> a forced trigger is unanswered
    staking,                \* the useStaking instance: state, refs, intervals, reads
    call,                   \* a direct call of a service function, with its result
    meals                   \* the useMealStatuses instance: state, reads in flight

vars == <<globalOperationCounter, now, connector, address, ledger, rejections,
          hook, console, ended, owed, staking, call, meals>>

\* What a step of useExpeditions leaves alone.
elsewhere == <<staking, call, meals>>

\* What a step of a hook instance leaves alone.
environment == <<now, connector, address, ledger>>

----------------------------------------------------------------------------
(* Program constants *)

REFETCH_COOLDOWN_MS == 5000
FETCH_DEBOUNCE_MS == 300
MEAL_DURATION_SECONDS == 6 * 60 * 60

(* Bounds of the model *)

StartTime == 5000     \* Date.now() when the page loads
MaxOps == 3           \* globalOperationCounter is capped
MaxTimers == 2        \* pending timeouts per hook instance
MaxRejections == 2    \* remote reads that reject in one behaviour

Null == "null"
NoLog == {}

\* debouncedFetchRef.current: null, the handle of a timeout that already ran, or
\* the handle (1..MaxTimers) of a pending timeout.
NullTimer == 0
FiredTimer == 0 - 1

\* The outcome of an awaited remote read.
Rejected == [ok |-> FALSE]
Resolved(v) == [ok |-> TRUE, value |-> v]

\* The components of the mine page that call useExpeditions().
Instances == {"EnterMines", "EatButton"}

\* The instants, in milliseconds after StartTime, at which the clock is read.
Elapsed == {0, 200, 400, 5000, 5200, 5400}
Instants == {StartTime + e : e \in Elapsed}

ConnectorObject == "connector"
Addresses == {"0xA"}

----------------------------------------------------------------------------
(* The remote ledger *)

\* One state of the contracts, as the reads of the hook see it:
\* foodContract.MEAL_COOLDOWN(), stakingContract.getStakedMiners(address),
\* miningContract.expeditions(minerId), foodContract.getMinerMealStatus(minerId).
NeverStarted == [startTime |-> 0, endTime |-> 0, completed |-> FALSE]
Underway == [startTime |-> 1, endTime |-> 2, completed |-> FALSE]
Returned == [startTime |-> 1, endTime |-> 2, completed |-> TRUE]
NeverAte == [mealId |-> 0, timestamp |-> 0]
AteAt4 == [mealId |-> 1, timestamp |-> 4]

Ledgers ==
    { [ mealCooldown |-> 3, stakedMiners |-> <<1, 2>>,
        expeditions |-> <<NeverStarted, Underway>>,
        meals |-> <<AteAt4, NeverAte>> ],
      [ mealCooldown |-> 3, stakedMiners |-> <<1>>,
        expeditions |-> <<Returned, NeverStarted>>,
        meals |-> <<NeverAte, NeverAte>> ],
      [ mealCooldown |-> 3, stakedMiners |-> <<>>,
        expeditions |-> <<NeverStarted, NeverStarted>>,
        meals |-> <<NeverAte, NeverAte>> ] }

\* The outcomes of an awaited read whose value on the ledger is v.
Outcomes(v) ==
    {Resolved(v)} \cup (IF rejections < MaxRejections THEN {Rejected} ELSE {})

Counted(answer) == IF answer.ok THEN rejections ELSE rejections + 1

----------------------------------------------------------------------------
(* Hook instance *)

IdleCycle ==
    [ pc |-> "idle", opId |-> 0, now |-> 0,
      mealCooldownSecs |-> 0, stakedMiners |-> <<>>,
      idx |-> 0, newStatuses |-> <<>>,
      startTimeValue |-> 0, endTimeValue |-> 0, completedValue |-> FALSE,
      isOnExpedition |-> FALSE ]

InitialHook ==
    [ lifecycle |-> "new",
      loading |-> TRUE,
      error |-> Null,
      initialized |-> FALSE,
      statuses |-> <<>>,
      lastValidStakedMiners |-> <<>>,
      lastFetchTimeRef |-> 0,
      fetchInProgressRef |-> FALSE,
      cooldownTime |-> 0,
      currentOpIdRef |-> 0,
      walletRef |-> [connector |-> Null, address |-> Null],
      debouncedFetchRef |-> NullTimer,
      timers |-> {},
      intervalId |-> FALSE,
      cyc |-> IdleCycle ]

\* The value of lastValidStakedMiners that the fetchStatuses closure reads:
\* useCallback(..., []) keeps the closure of the first render, where the state
\* is its initial value.
ClosureLastValidStakedMiners(h) == InitialHook.lastValidStakedMiners

----------------------------------------------------------------------------
(* Debounced trigger *)

FreeTimerId(pending) ==
    CHOOSE k \in 1..MaxTimers : \A t \in pending : t.id # k

KeepPending(h) == h.timers

CancelPending(h) ==
    IF h.debouncedFetchRef # NullTimer
    THEN {t \in h.timers : t.id # h.debouncedFetchRef}
    ELSE h.timers

\* fetchStatuses(force): clearTimeout of the timer in debouncedFetchRef, then
\* setTimeout(callback, FETCH_DEBOUNCE_MS) with force captured by the callback.
fetchStatuses(h, force, t) ==
    LET pending == CancelPending(h)
        id == FreeTimerId(pending)
    IN [h EXCEPT !.timers = pending \cup
                     {[id |-> id, due |-> t + FETCH_DEBOUNCE_MS, force |-> force]},
                 !.debouncedFetchRef = id]

CanSetTimer(h) == Cardinality(CancelPending(h)) < MaxTimers

----------------------------------------------------------------------------
(* Fetch cycle: the callback of the debounce timer *)

AlwaysCurrent(opId, counter) == TRUE

\* opId === globalOperationCounter
IsCurrent(opId, counter) == opId = counter

SameOperationId(counter) == counter

\* const opId = ++globalOperationCounter
NextOperationId(counter) == counter + 1

\* !force && now - lastFetchTimeRef.current < REFETCH_COOLDOWN_MS
NoCooldown(force, t, lastFetchTime) == FALSE

InCooldown(force, t, lastFetchTime) ==
    ~force /\ t - lastFetchTime < REFETCH_COOLDOWN_MS

\* !connector || !address, read from walletRef.current
NoWallet(h) == h.walletRef.connector = Null \/ h.walletRef.address = Null

NeverInProgress(h) == FALSE

\* if (fetchInProgressRef.current) return
FetchInProgress(h) == h.fetchInProgressRef

\* The synchronous head of a cycle: from "Mark fetch as in progress" to the
\* first await.
StartCycle(h, t, counter) ==
    LET opId == NextOperationId(counter)
    IN [h EXCEPT !.fetchInProgressRef = TRUE,
                 !.currentOpIdRef = opId,
                 !.lastFetchTimeRef = t,
                 !.loading = TRUE,
                 !.error = Null,
                 !.cyc = [IdleCycle EXCEPT !.pc = "provider", !.opId = opId,
                                           !.now = t,
                                           !.mealCooldownSecs = MEAL_DURATION_SECONDS]]

CatchResets(h, counter) ==
    [h EXCEPT !.error = "fetch error", !.initialized = FALSE, !.statuses = <<>>]

\* catch (err): setError only when the operation is still current
CatchBlock(h, counter) ==
    IF IsCurrent(h.cyc.opId, counter)
    THEN [h EXCEPT !.error = "fetch error"]
    ELSE h

\* finally: setLoading(false) when current, fetchInProgressRef.current = false.
\* The callback's locals die with it.
FinallyBlock(h, counter) ==
    [h EXCEPT !.loading = IF IsCurrent(h.cyc.opId, counter) THEN FALSE ELSE @,
              !.fetchInProgressRef = FALSE,
              !.cyc = IdleCycle]

\* debouncedFetchRef.current = null, after the try statement; a return
\* inside the try block skips it.
ClearDebounceRef(h) == [h EXCEPT !.debouncedFetchRef = NullTimer]

\* "Only complete the operation if it hasn't been superseded"
CommitBlock(h, counter) ==
    IF IsCurrent(h.cyc.opId, counter)
    THEN [h EXCEPT !.initialized = TRUE,
                   !.lastValidStakedMiners =
                       IF Len(h.cyc.stakedMiners) > 0 THEN h.cyc.stakedMiners ELSE @,
                   !.statuses = h.cyc.newStatuses,
                   !.cooldownTime = h.cyc.now + REFETCH_COOLDOWN_MS]
    ELSE h

\* The head of the for loop over stakedMiners, and what follows the loop.
\* Entered with cyc.idx the index of the next miner.
LoopHead(h, counter) ==
    IF h.cyc.idx <= Len(h.cyc.stakedMiners)
    THEN IF ~IsCurrent(h.cyc.opId, counter)
         THEN FinallyBlock(h, counter)      \* return inside try
         ELSE [h EXCEPT !.cyc.pc = "expedition",
                        !.cyc.startTimeValue = 0,
                        !.cyc.endTimeValue = 0,
                        !.cyc.completedValue = FALSE,
                        !.cyc.isOnExpedition = FALSE]
    ELSE ClearDebounceRef(FinallyBlock(CommitBlock(h, counter), counter))

\* await connector.getProvider(); await ethersProvider.getSigner()
AfterProvider(h, answer, counter) ==
    IF answer.ok
    THEN [h EXCEPT !.cyc.pc = "cooldown"]
    ELSE ClearDebounceRef(FinallyBlock(CatchBlock(h, counter), counter))

\* await foodContract.MEAL_COOLDOWN(), default kept when it rejects
AfterMealCooldown(h, answer) ==
    [h EXCEPT !.cyc.pc = "stakedMiners",
              !.cyc.mealCooldownSecs = IF answer.ok THEN answer.value ELSE @]

\* await stakingContract.getStakedMiners(address), with the fallback
AfterStakedMiners(h, answer, counter) ==
    LET read == IF answer.ok
                THEN [h EXCEPT !.cyc.stakedMiners = answer.value,
                               !.lastValidStakedMiners =
                                   IF Len(answer.value) > 0 THEN answer.value ELSE @]
                ELSE [h EXCEPT !.cyc.stakedMiners = ClosureLastValidStakedMiners(h)]
    IN LoopHead([read EXCEPT !.cyc.idx = 1, !.cyc.newStatuses = <<>>], counter)

\* await miningContract.expeditions(minerId), stub values kept when it rejects
AfterExpedition(h, answer) ==
    IF answer.ok
    THEN [h EXCEPT !.cyc.pc = "meal",
                   !.cyc.startTimeValue = answer.value.startTime,
                   !.cyc.endTimeValue = answer.value.endTime,
                   !.cyc.completedValue = answer.value.completed,
                   !.cyc.isOnExpedition =
                       /\ answer.value.startTime > 0
                       /\ answer.value.endTime > 0
                       /\ ~answer.value.completed]
    ELSE [h EXCEPT !.cyc.pc = "meal"]

\* Math.floor(now / 1000)
CurrentTimestampSeconds(t) == t \div 1000

\* const mealEverConsumed = mealTimestamp > 0
MealEverConsumed(mealTimestamp) == mealTimestamp > 0

\* const mealActiveByExpiry = mealTimestamp + mealCooldownSecs > currentTimestampSeconds
MealActiveByExpiry(mealTimestamp, mealCooldownSecs, currentTimestampSeconds) ==
    mealTimestamp + mealCooldownSecs > currentTimestampSeconds

FedByExpiry(mealTimestamp, mealCooldownSecs, currentTimestampSeconds) ==
    MealActiveByExpiry(mealTimestamp, mealCooldownSecs, currentTimestampSeconds)

\* fed = mealEverConsumed
Fed(mealTimestamp, mealCooldownSecs, currentTimestampSeconds) ==
    MealEverConsumed(mealTimestamp)

MismatchWhenExpired(mealEverConsumed, mealActiveByExpiry) ==
    mealEverConsumed /\ ~mealActiveByExpiry

\* if (mealEverConsumed !== mealActiveByExpiry) logDebug(MISMATCH ...)
Mismatch(mealEverConsumed, mealActiveByExpiry) ==
    mealEverConsumed # mealActiveByExpiry

\* The MISMATCH lines written for one miner, NoLog when there are none.
MismatchLog(minerId, mealTimestamp, mealCooldownSecs, currentTimestampSeconds) ==
    LET consumed == MealEverConsumed(mealTimestamp)
        active == MealActiveByExpiry(mealTimestamp, mealCooldownSecs,
                                     currentTimestampSeconds)
    IN IF Mismatch(consumed, active)
       THEN {[minerId |-> minerId, contract |-> consumed, ui |-> active,
              mealTimestamp |-> mealTimestamp,
              expiryTime |-> mealTimestamp + mealCooldownSecs,
              currentTime |-> currentTimestampSeconds]}
       ELSE NoLog

\* The status object pushed for a miner after its meal read.
MinerStatus(c, minerId, mealId, mealTimestamp, fed) ==
    [ minerId |-> minerId,
      onExpedition |-> c.isOnExpedition,
      startTime |-> c.startTimeValue,
      endTime |-> c.endTimeValue,
      completed |-> c.completedValue,
      eligibleForNewExpedition |-> ~c.isOnExpedition /\ fed,
      fedStatus |-> [ mealId |-> mealId,
                      timestamp |-> mealTimestamp,
                      isActive |-> fed,
                      expiryTime |-> mealTimestamp + c.mealCooldownSecs ] ]

\* await foodContract.getMinerMealStatus(minerId), the push of the status and
\* the next turn of the loop
AfterMeal(h, answer, counter) ==
    LET c == h.cyc
        minerId == c.stakedMiners[c.idx]
        mealId == IF answer.ok THEN answer.value.mealId ELSE 0
        mealTimestamp == IF answer.ok THEN answer.value.timestamp ELSE 0
        fed == IF answer.ok
               THEN Fed(mealTimestamp, c.mealCooldownSecs,
                        CurrentTimestampSeconds(c.now))
               ELSE FALSE
        status == MinerStatus(c, minerId, mealId, mealTimestamp, fed)
    IN LoopHead([h EXCEPT !.cyc.newStatuses = Append(@, status),
                          !.cyc.idx = @ + 1], counter)

\* What the meal read of a miner writes to the console.
MealConsole(h, answer) ==
    IF answer.ok
    THEN MismatchLog(h.cyc.stakedMiners[h.cyc.idx], answer.value.timestamp,
                     h.cyc.mealCooldownSecs, CurrentTimestampSeconds(h.cyc.now))
    ELSE NoLog

----------------------------------------------------------------------------
(* RoninWalletProvider *)

\* setConnector(conn), in initConnector and in connect
ProviderSetConnector ==
    /\ connector = Null
    /\ connector' = ConnectorObject
    /\ console' = NoLog
    /\ UNCHANGED <<globalOperationCounter, now, address, ledger, rejections, hook>>

\* setAddress(account), in initConnector and in connect
ProviderSetAddress(a) ==
    /\ connector # Null
    /\ address = Null
    /\ address' = a
    /\ console' = NoLog
    /\ UNCHANGED <<globalOperationCounter, now, connector, ledger, rejections, hook>>

\* disconnect: setAddress(null)
ProviderDisconnect ==
    /\ address # Null
    /\ address' = Null
    /\ console' = NoLog
    /\ UNCHANGED <<globalOperationCounter, now, connector, ledger, rejections, hook>>

----------------------------------------------------------------------------
(* Effects and callbacks of a hook instance *)

\* The effect on [connector, fetchStatuses]
ConnectorEffect(h, conn, t) ==
    IF conn = Null
    THEN [h EXCEPT !.statuses = <<>>, !.initialized = FALSE]
    ELSE fetchStatuses(h, TRUE, t)

\* First render and its effects, in source order: walletRef, the mount effect
\* (forced fetch, interval), the connector effect.
Mount(i) ==
    /\ hook[i].lifecycle = "new"
    /\ LET h0 == [InitialHook EXCEPT
                      !.lifecycle = "mounted",
                      !.walletRef = [connector |-> connector, address |-> address],
                      !.intervalId = TRUE]
           h1 == fetchStatuses(h0, TRUE, now)
       IN hook' = [hook EXCEPT ![i] = ConnectorEffect(h1, connector, now)]
    /\ console' = NoLog
    /\ UNCHANGED <<globalOperationCounter, rejections, environment>>

\* Re-render after the wallet context changed: the walletRef effect, and the
\* connector effect when its dependency changed.
WalletEffects(i) ==
    LET h == hook[i]
        seen == [h EXCEPT !.walletRef = [connector |-> connector, address |-> address]]
    IN /\ h.lifecycle = "mounted"
       /\ h.walletRef # [connector |-> connector, address |-> address]
       /\ CanSetTimer(h)
       /\ hook' = [hook EXCEPT ![i] =
                      IF h.walletRef.connector # connector
                      THEN ConnectorEffect(seen, connector, now)
                      ELSE seen]
       /\ console' = NoLog
       /\ UNCHANGED <<globalOperationCounter, rejections, environment>>

\* The cleanup of the mount effect
Unmount(i) ==
    /\ hook[i].lifecycle = "mounted"
    /\ globalOperationCounter < MaxOps
    /\ hook' = [hook EXCEPT ![i] =
                   [hook[i] EXCEPT !.lifecycle = "unmounted",
                                   !.timers = CancelPending(hook[i]),
                                   !.debouncedFetchRef = NullTimer,
                                   !.intervalId = FALSE]]
    /\ globalOperationCounter' = globalOperationCounter + 1
    /\ console' = NoLog
    /\ UNCHANGED <<rejections, environment>>

\* setInterval(() => fetchStatuses(), refreshIntervalMs)
IntervalTick(i) ==
    /\ hook[i].lifecycle = "mounted"
    /\ hook[i].intervalId
    /\ CanSetTimer(hook[i])
    /\ hook' = [hook EXCEPT ![i] = fetchStatuses(hook[i], FALSE, now)]
    /\ console' = NoLog
    /\ UNCHANGED <<globalOperationCounter, rejections, environment>>

\* forceRefresh / refetch, called by the component
ForceRefresh(i) ==
    /\ hook[i].lifecycle = "mounted"
    /\ CanSetTimer(hook[i])
    /\ hook' = [hook EXCEPT ![i] = fetchStatuses(hook[i], TRUE, now)]
    /\ console' = NoLog
    /\ UNCHANGED <<globalOperationCounter, rejections, environment>>

\* The timeout ran: removed from the pending timers.
TimerRan(h, t) ==
    [h EXCEPT !.timers = @ \ {t},
              !.debouncedFetchRef = IF @ = t.id THEN FiredTimer ELSE @]

\* Whether the callback of timer t, run at time `at`, starts a cycle.
StartsCycle(h, t, at) ==
    /\ ~NoWallet(h)
    /\ ~FetchInProgress(h)
    /\ ~InCooldown(t.force, at, h.lastFetchTimeRef)

\* The debounce callback up to its first await.
TimerCallback(h, t, at, counter) ==
    IF NoWallet(h)
    THEN [h EXCEPT !.error = "Wallet not connected", !.initialized = FALSE]
    ELSE IF FetchInProgress(h) \/ InCooldown(t.force, at, h.lastFetchTimeRef)
         THEN h
         ELSE StartCycle(h, at, counter)

TimerFires(i) ==
    \E t \in hook[i].timers :
        LET h == TimerRan(hook[i], t) IN
        /\ now >= t.due
        /\ StartsCycle(h, t, now) => globalOperationCounter < MaxOps
        /\ hook' = [hook EXCEPT ![i] =
                       TimerCallback(h, t, now, globalOperationCounter)]
        /\ globalOperationCounter' =
               IF StartsCycle(h, t, now)
               THEN NextOperationId(globalOperationCounter)
               ELSE globalOperationCounter
        /\ console' = NoLog
        /\ UNCHANGED <<rejections, environment>>

\* await connector.getProvider(); await ethersProvider.getSigner()
ProviderDone(i) ==
    /\ hook[i].cyc.pc = "provider"
    /\ \E answer \in Outcomes(ConnectorObject) :
        /\ hook' = [hook EXCEPT ![i] =
                       AfterProvider(hook[i], answer, globalOperationCounter)]
        /\ rejections' = Counted(answer)
    /\ console' = NoLog
    /\ UNCHANGED <<globalOperationCounter, environment>>

MealCooldownDone(i) ==
    /\ hook[i].cyc.pc = "cooldown"
    /\ \E answer \in Outcomes(ledger.mealCooldown) :
        /\ hook' = [hook EXCEPT ![i] = AfterMealCooldown(hook[i], answer)]
        /\ rejections' = Counted(answer)
    /\ console' = NoLog
    /\ UNCHANGED <<globalOperationCounter, environment>>

StakedMinersDone(i) ==
    /\ hook[i].cyc.pc = "stakedMiners"
    /\ \E answer \in Outcomes(ledger.stakedMiners) :
        /\ hook' = [hook EXCEPT ![i] =
                       AfterStakedMiners(hook[i], answer, globalOperationCounter)]
        /\ rejections' = Counted(answer)
    /\ console' = NoLog
    /\ UNCHANGED <<globalOperationCounter, environment>>

ExpeditionDone(i) ==
    /\ hook[i].cyc.pc = "expedition"
    /\ \E answer \in Outcomes(ledger.expeditions[hook[i].cyc.stakedMiners[hook[i].cyc.idx]]) :
        /\ hook' = [hook EXCEPT ![i] = AfterExpedition(hook[i], answer)]
        /\ rejections' = Counted(answer)
    /\ console' = NoLog
    /\ UNCHANGED <<globalOperationCounter, environment>>

MealDone(i) ==
    /\ hook[i].cyc.pc = "meal"
    /\ \E answer \in Outcomes(ledger.meals[hook[i].cyc.stakedMiners[hook[i].cyc.idx]]) :
        /\ hook' = [hook EXCEPT ![i] =
                       AfterMeal(hook[i], answer, globalOperationCounter)]
        /\ console' = MealConsole(hook[i], answer)
        /\ rejections' = Counted(answer)
    /\ UNCHANGED <<globalOperationCounter, environment>>

\* Time passes.
Advance(t) ==
    /\ t > now
    /\ now' = t
    /\ console' = NoLog
    /\ UNCHANGED <<globalOperationCounter, connector, address, ledger, rejections, hook>>

----------------------------------------------------------------------------
(* StakingSyncService and useStaking: state *)

\* Amounts of GEMS are carried in thousandths of the unit of the rate, so that
\* the division of milliseconds by 1000 is exact.
NoCall == [fn |-> "none"]

MIN_SYNC_INTERVAL == 30000

MaxServices == 2      \* StakingSyncService objects created in one behaviour
MaxStakingReads == 2  \* getStakingData / direct reads in flight at once

\* useState of useStaking at first render, its refs, and nothing scheduled.
\* syncService is 0 for null, else the number of the service object; the
\* refs hold a set with the object they name, or the empty set for null.
\* The fields of StakingState that the properties do not read (isLoading,
\* error, availableMiners, loadingMiners) are left out.
InitialStaking ==
    [lifecycle |-> "new",
     seen |-> [connector |-> Null, address |-> Null],
     state |-> [stakedMiners |-> <<>>,
                stakedMinerCount |-> 0,
                pendingRewards |-> 0,
                gemsPerSecond |-> 0,
                lastRewardsUpdate |-> 0,
                autoSyncEnabled |-> FALSE,
                estimatedRewards |-> 0,
                isLoading |-> FALSE],
     syncService |-> 0,
     created |-> 0,
     lastSyncTimestamp |-> [k \in 1..MaxServices |-> 0],
     syncIntervals |-> {},
     cleanupSyncRef |-> {},
     rewardsIntervalRef |-> {},
     intervals |-> {},
     reads |-> {}]

\* useState of useMealStatuses at first render; no read in flight, nothing
\* returned yet
InitialMeals ==
    [stakedMiners |-> <<>>,
     lastValidStakedMiners |-> <<>>,
     reads |-> {},
     returned |-> <<>>,
     lifecycle |-> "new",
     statuses |-> <<>>,
     loading |-> TRUE,
     lastFetchTime |-> 0,
     first |-> [connector |-> Null, address |-> Null],
     initialFetchTimer |-> {},
     interval |-> FALSE,
     cycles |-> {},
     triggered |-> 0,
     committed |-> 0]

----------------------------------------------------------------------------
(* Specifications *)

Init ==
    /\ globalOperationCounter = 0
    /\ now = StartTime
    /\ connector = Null
    /\ address = Null
    /\ ledger \in Ledgers
    /\ rejections = 0
    /\ hook = [i \in Instances |-> InitialHook]
    /\ console = NoLog
    /\ ended = [i \in Instances |-> 0]
    /\ owed = [i \in Instances |-> FALSE]
    /\ staking = InitialStaking
    /\ call = NoCall
    /\ meals = InitialMeals

\* A step that the observers do not record.
Plain(A) == A /\ UNCHANGED <<ended, owed, elsewhere>>

\* One hook instance, every instant of the clock.
Next ==
    \/ Plain(ProviderSetConnector)
    \/ \E a \in Addresses : Plain(ProviderSetAddress(a))
    \/ Plain(ProviderDisconnect)
    \/ \E t \in Instants : Plain(Advance(t))
    \/ \E i \in {"EnterMines"} :
        \/ Plain(Mount(i))
        \/ Plain(WalletEffects(i))
        \/ Plain(Unmount(i))
        \/ Plain(IntervalTick(i))
        \/ Plain(ForceRefresh(i))
        \/ Plain(TimerFires(i))
        \/ Plain(ProviderDone(i))
        \/ Plain(MealCooldownDone(i))
        \/ Plain(StakedMinersDone(i))
        \/ Plain(ExpeditionDone(i))
        \/ Plain(MealDone(i))

Spec == Init /\ [][Next]_vars

\* The wallet is connected before the page is opened, and holds one staked miner.
InitConnected ==
    /\ globalOperationCounter = 0
    /\ now = StartTime
    /\ connector = ConnectorObject
    /\ address \in Addresses
    /\ ledger \in {l \in Ledgers : Len(l.stakedMiners) = 1}
    /\ rejections = 0
    /\ hook = [i \in Instances |-> InitialHook]
    /\ console = NoLog
    /\ ended = [i \in Instances |-> 0]
    /\ owed = [i \in Instances |-> FALSE]
    /\ staking = InitialStaking
    /\ call = NoCall
    /\ meals = InitialMeals

\* The instances of the mine page side by side, over a short time, with the
\* wallet connected throughout.
PageInstants == {StartTime, StartTime + 400, StartTime + 800}

NextPage ==
    \/ \E t \in PageInstants : Plain(Advance(t))
    \/ \E i \in Instances :
        \/ Plain(Mount(i))
        \/ Plain(Unmount(i))
        \/ Plain(IntervalTick(i))
        \/ Plain(ForceRefresh(i))
        \/ Plain(TimerFires(i))
        \/ Plain(ProviderDone(i))
        \/ Plain(MealCooldownDone(i))
        \/ Plain(StakedMinersDone(i))
        \/ Plain(ExpeditionDone(i))
        \/ Plain(MealDone(i))

SpecPage == InitConnected /\ [][NextPage]_vars

----------------------------------------------------------------------------
(* Properties of one hook instance, checked under Spec *)

MinerIdsOf(statuses) == [k \in 1..Len(statuses) |-> statuses[k].minerId]

\* A step of the cycle of instance i: the continuation of the await at `pc`.
CycleStep(i, pc) == hook[i].cyc.pc = pc /\ hook'[i].cyc # hook[i].cyc

\* C1: when a cycle has committed statuses for a non-empty list of staked
\* miners and the getStakedMiners read of the next cycle rejects, that cycle
\* goes on with the miners of the previous list, and the statuses of the hook
\* do not become the empty list.
C1_FailedReadKeepsMiners ==
    [][\A i \in Instances :
          ( /\ CycleStep(i, "stakedMiners")
            /\ rejections' = rejections + 1
            /\ IsCurrent(hook[i].cyc.opId, globalOperationCounter)
            /\ hook[i].initialized
            /\ hook[i].statuses # <<>> )
          => /\ hook'[i].cyc.stakedMiners = MinerIdsOf(hook[i].statuses)
             /\ hook'[i].statuses # <<>>]_vars

\* C9: for a miner whose getMinerMealStatus read resolves, the MISMATCH
\* diagnostic (miner, both predicate values, meal timestamp, expiry time,
\* current time) is written if and only if mealTimestamp > 0 differs from
\* mealTimestamp + mealCooldownSecs > currentTimestampSeconds.
C9_MismatchLoggedIffPredicatesDiffer ==
    [][\A i \in Instances :
          (CycleStep(i, "meal") /\ rejections' = rejections)
          => LET c == hook[i].cyc
                 minerId == c.stakedMiners[c.idx]
                 ts == ledger.meals[minerId].timestamp
                 expiry == ts + c.mealCooldownSecs
                 current == c.now \div 1000
                 exact == ts > 0
                 display == expiry > current
             IN IF exact # display
                THEN console' = {[minerId |-> minerId, contract |-> exact,
                                  ui |-> display, mealTimestamp |-> ts,
                                  expiryTime |-> expiry, currentTime |-> current]}
                ELSE console' = NoLog]_vars

\* A meal was eaten and its window has elapsed: the diagnostic is written.
C9_Witness ==
    \E r \in console : r.contract /\ ~r.ui /\ r.expiryTime <= r.currentTime

\* C10: in every committed status, fedStatus.isActive is mealTimestamp > 0 and
\* eligibleForNewExpedition is (not onExpedition and mealTimestamp > 0), with
\* onExpedition = (startTime > 0 and endTime > 0 and not completed); the
\* clock and the meal window play no part.
C10_StatusFollowsContractPredicate ==
    \A i \in Instances : \A k \in 1..Len(hook[i].statuses) :
        LET s == hook[i].statuses[k] IN
        /\ s.onExpedition = (s.startTime > 0 /\ s.endTime > 0 /\ ~s.completed)
        /\ s.fedStatus.isActive = (s.fedStatus.timestamp > 0)
        /\ s.eligibleForNewExpedition =
               (~s.onExpedition /\ s.fedStatus.timestamp > 0)

\* A committed status that is fed and eligible although its meal window is over.
C10_Witness ==
    \E i \in Instances : \E k \in 1..Len(hook[i].statuses) :
        LET s == hook[i].statuses[k] IN
        /\ s.fedStatus.isActive
        /\ s.eligibleForNewExpedition
        /\ s.fedStatus.expiryTime <= now \div 1000

----------------------------------------------------------------------------
(* Properties of the instances of one page, checked under SpecPage *)

InFlight(i) == hook[i].cyc.pc # "idle"

\* A step of the cycle that instance i has in flight.
InFlightStep(i) == InFlight(i) /\ hook'[i].cyc # hook[i].cyc

\* C2: once a cycle with a greater operation id has started, a cycle in flight
\* calls neither setStatuses, setInitialized, setCooldownTime, setError nor
\* setLoading(false).
C2_OlderCycleDiscardsResults ==
    [][\A i \in Instances :
          ( /\ InFlightStep(i)
            /\ \E j \in Instances : hook[j].currentOpIdRef > hook[i].cyc.opId )
          => /\ hook'[i].statuses = hook[i].statuses
             /\ hook'[i].initialized = hook[i].initialized
             /\ hook'[i].cooldownTime = hook[i].cooldownTime
             /\ hook'[i].error = hook[i].error
             /\ hook[i].loading => hook'[i].loading]_vars

\* The older cycle of instance i has ended without a commit (loading was never
\* reset) after the newer cycle of instance j committed.
C2_Witness ==
    \E i, j \in Instances :
        /\ hook[i].currentOpIdRef > 0
        /\ hook[j].currentOpIdRef > hook[i].currentOpIdRef
        /\ hook[j].initialized
        /\ hook[j].statuses # <<>>
        /\ ~InFlight(i)
        /\ hook[i].lifecycle = "mounted"
        /\ hook[i].loading
        /\ ~hook[i].initialized

\* C3: globalOperationCounter never decreases; a cycle that starts increments
\* it by exactly one and takes the new value as its opId; no two instances
\* hold the same opId, and no opId is ahead of the counter.
C3_OperationIdsAreFresh ==
    /\ [][globalOperationCounter' >= globalOperationCounter]_vars
    /\ [][\A i \in Instances :
             (~InFlight(i) /\ hook'[i].cyc.pc # "idle")
             => /\ globalOperationCounter' = globalOperationCounter + 1
                /\ hook'[i].cyc.opId = globalOperationCounter'
                /\ hook'[i].currentOpIdRef = globalOperationCounter']_vars
    /\ [](\A i, j \in Instances :
             (i # j /\ hook[i].currentOpIdRef # 0)
             => hook[i].currentOpIdRef # hook[j].currentOpIdRef)
    /\ [](\A i \in Instances :
             /\ hook[i].currentOpIdRef <= globalOperationCounter
             /\ InFlight(i) => hook[i].cyc.opId = hook[i].currentOpIdRef)

\* Two cycles of different instances with an unmount between their starts.
C3_Witness ==
    \E i, j \in Instances :
        /\ hook[i].currentOpIdRef = 1
        /\ hook[i].lifecycle = "unmounted"
        /\ hook[j].currentOpIdRef = 3
        /\ InFlight(j)

\* The React state of a hook instance.
HookState(h) ==
    <<h.loading, h.error, h.initialized, h.statuses, h.lastValidStakedMiners,
      h.cooldownTime>>

\* C4: a cycle whose opId is no longer globalOperationCounter writes no hook
\* state, lastValidStakedMiners included.
C4_SupersededCycleWritesNothing ==
    [][\A i \in Instances :
          ( /\ InFlightStep(i)
            /\ ~IsCurrent(hook[i].cyc.opId, globalOperationCounter) )
          => HookState(hook'[i]) = HookState(hook[i])]_vars

\* C8 as stated: over all mounted instances at most one cycle is in flight.
C8_OneCycleInFlightPerAddress ==
    Cardinality({i \in Instances : hook[i].lifecycle = "mounted" /\ InFlight(i)}) <= 1

\* The debounce timer of instance i ran in this step.
TimerRuns(i) ==
    /\ hook'[i].lifecycle = hook[i].lifecycle
    /\ \E t \in hook[i].timers : hook'[i].timers = hook[i].timers \ {t}

\* C8, amended: within one hook instance no cycle starts while one is in
\* flight; a timer that runs while a cycle of its instance is in flight starts
\* nothing, and nothing is started or scheduled when that cycle ends.
C8_OneCycleInFlightPerInstance ==
    /\ [](\A i \in Instances : hook[i].fetchInProgressRef <=> InFlight(i))
    /\ [][\A i \in Instances :
             InFlight(i)
             => \/ hook'[i].cyc.opId = hook[i].cyc.opId
                \/ /\ hook'[i].cyc.pc = "idle"
                   /\ hook'[i].timers = hook[i].timers
                   /\ globalOperationCounter' = globalOperationCounter]_vars
    /\ [][\A i \in Instances :
             (InFlight(i) /\ TimerRuns(i))
             => /\ hook'[i].cyc = hook[i].cyc
                /\ globalOperationCounter' = globalOperationCounter]_vars

\* A timer of an instance is due while a cycle of that instance is in flight,
\* and the other instance has a cycle in flight too.
C8_Witness ==
    \E i, j \in Instances :
        /\ i # j
        /\ InFlight(i)
        /\ InFlight(j)
        /\ \E t \in hook[i].timers : now >= t.due

----------------------------------------------------------------------------
(* One instance under a connected wallet: bursts of forced calls *)

Burst == "EnterMines"

\* A forced call made with no cycle in flight, as the first call of a burst or
\* less than FETCH_DEBOUNCE_MS after the call before it.
BurstRefresh(i) ==
    /\ ~hook[i].fetchInProgressRef
    /\ \A t \in hook[i].timers : now < t.due
    /\ ForceRefresh(i)

NextDebounce ==
    \/ \E t \in Instants : Plain(Advance(t))
    \/ Plain(Mount(Burst))
    \/ Plain(BurstRefresh(Burst))
    \/ Plain(TimerFires(Burst))
    \/ Plain(ProviderDone(Burst))
    \/ Plain(MealCooldownDone(Burst))
    \/ Plain(StakedMinersDone(Burst))
    \/ Plain(ExpeditionDone(Burst))
    \/ Plain(MealDone(Burst))

SpecDebounce == InitConnected /\ [][NextDebounce]_vars

----------------------------------------------------------------------------
(* One instance under a connected wallet: forced and interval triggers *)

CycleStarts(i) == ~InFlight(i) /\ hook'[i].cyc.pc # "idle"

CycleEnds(i) == InFlight(i) /\ hook'[i].cyc.pc = "idle"

WalletConnected == connector # Null /\ address # Null

\* A step, with the time at which a cycle ended recorded in `ended`; a cycle
\* start settles the forced triggers recorded in `owed`.
Observed(A) ==
    /\ A
    /\ ended' = [i \in Instances |-> IF CycleEnds(i) THEN now ELSE ended[i]]
    /\ owed' = [i \in Instances |-> IF CycleStarts(i) THEN FALSE ELSE owed[i]]
    /\ UNCHANGED elsewhere

\* A step of instance i that issues a forced trigger, recorded in `owed` when
\* the wallet is connected and no cycle is in flight.
ObservedForced(A, i) ==
    /\ A
    /\ owed' = [owed EXCEPT ![i] = @ \/ (WalletConnected /\ ~hook[i].fetchInProgressRef)]
    /\ UNCHANGED <<ended, elsewhere>>

\* Time passes once every timer that is due has run.
PunctualAdvance(t) ==
    /\ \A i \in Instances : \A tm \in hook[i].timers : now < tm.due
    /\ Advance(t)

NextTriggers ==
    \/ \E t \in Instants : Observed(PunctualAdvance(t))
    \/ ObservedForced(Mount(Burst), Burst)
    \/ ObservedForced(ForceRefresh(Burst), Burst)
    \/ Observed(IntervalTick(Burst))
    \/ Observed(TimerFires(Burst))
    \/ Observed(ProviderDone(Burst))
    \/ Observed(MealCooldownDone(Burst))
    \/ Observed(StakedMinersDone(Burst))
    \/ Observed(ExpeditionDone(Burst))
    \/ Observed(MealDone(Burst))

SpecTriggers == InitConnected /\ [][NextTriggers]_vars

\* The timer of a non-forced trigger of instance i ran in this step.
NonForcedTimerRuns(i) ==
    /\ hook'[i].lifecycle = hook[i].lifecycle
    /\ \E t \in hook[i].timers :
           ~t.force /\ hook'[i].timers = hook[i].timers \ {t}

\* C6 as stated: a non-forced timer that runs less than REFETCH_COOLDOWN_MS
\* after the previous cycle of its instance completed starts no cycle.
C6_CooldownFromCompletion ==
    [][\A i \in Instances :
          ( /\ NonForcedTimerRuns(i)
            /\ ended[i] > 0
            /\ now - ended[i] < REFETCH_COOLDOWN_MS )
          => globalOperationCounter' = globalOperationCounter]_vars

\* C6, amended: a non-forced timer that runs less than REFETCH_COOLDOWN_MS
\* after the previous cycle of its instance started starts no cycle.
C6_CooldownFromStart ==
    [][\A i \in Instances :
          ( /\ NonForcedTimerRuns(i)
            /\ hook[i].lastFetchTimeRef > 0
            /\ now - hook[i].lastFetchTimeRef < REFETCH_COOLDOWN_MS )
          => /\ globalOperationCounter' = globalOperationCounter
             /\ hook'[i].cyc = hook[i].cyc]_vars

\* A non-forced timer is due after a cycle completed, within the cooldown of
\* that cycle's start.
C6_Witness ==
    \E i \in Instances :
        /\ ended[i] > 0
        /\ ~InFlight(i)
        /\ now - hook[i].lastFetchTimeRef < REFETCH_COOLDOWN_MS
        /\ \E t \in hook[i].timers : ~t.force /\ now >= t.due

\* C7: a forced trigger issued with the wallet connected and no cycle in
\* flight is followed by a cycle start: until then a timer stays pending.
C7_ForcedTriggerStartsCycle ==
    \A i \in Instances : owed[i] => hook[i].timers # {}

----------------------------------------------------------------------------
(* Aggregates over the statuses of a hook instance *)

\* useMemo: statuses.length === 0 ? false : statuses.every(s => s.eligibleForNewExpedition)
allMinersEligible(statuses) ==
    IF Len(statuses) = 0
    THEN FALSE
    ELSE \A k \in 1..Len(statuses) : statuses[k].eligibleForNewExpedition

\* useMemo: statuses.length === 0 ? false : statuses.every(s => s.fedStatus?.isActive === true)
allMinersFed(statuses) ==
    IF Len(statuses) = 0
    THEN FALSE
    ELSE \A k \in 1..Len(statuses) : statuses[k].fedStatus.isActive = TRUE

\* C11: once a cycle committed an empty set of statuses, allMinersEligible and
\* allMinersFed report a value that is neither true nor false.
C11_EmptySetIsDistinct ==
    \A i \in Instances :
        (hook[i].initialized /\ hook[i].statuses = <<>>)
        => /\ allMinersEligible(hook[i].statuses) \notin BOOLEAN
           /\ allMinersFed(hook[i].statuses) \notin BOOLEAN

----------------------------------------------------------------------------
(* StakingSyncService.estimateCurrentRewards *)

estimateWithoutCount(baseRewards, gemsPerSecond, minerCount, lastUpdateTime, t) ==
    IF minerCount = 0
    THEN baseRewards
    ELSE baseRewards + gemsPerSecond * (t - lastUpdateTime)

\* estimateCurrentRewards at Date.now() = t.  With the rate in units of u GEMS
\* per second, baseRewards and the result are in units of u / 1000 GEMS:
\* elapsed = (t - lastUpdateTime) / 1000 seconds is then t - lastUpdateTime.
estimateCurrentRewards(baseRewards, gemsPerSecond, minerCount, lastUpdateTime, t) ==
    IF minerCount = 0
    THEN baseRewards
    ELSE LET elapsed == t - lastUpdateTime
             rate == gemsPerSecond
             additionalRewards == rate * minerCount * elapsed
             updatedRewards == baseRewards + additionalRewards
         IN updatedRewards

\* The inputs of the direct calls: with u = 0.01 GEMS per second, 10000000 is
\* 100 GEMS.
EstimateBases == {0, 7, 10000000}
EstimateRates == {0, 1, 3}
EstimateCounts == {0, 1, 5}
EstimateInstants == {StartTime, StartTime + 1000, StartTime + 100000}

CallEstimate ==
    /\ \E baseRewards \in EstimateBases, gemsPerSecond \in EstimateRates,
          minerCount \in EstimateCounts, lastUpdateTime \in EstimateInstants :
          call' = [fn |-> "estimateCurrentRewards",
                   baseRewards |-> baseRewards,
                   gemsPerSecond |-> gemsPerSecond,
                   minerCount |-> minerCount,
                   lastUpdateTime |-> lastUpdateTime,
                   at |-> now,
                   result |-> estimateCurrentRewards(baseRewards, gemsPerSecond,
                                                     minerCount, lastUpdateTime, now)]
    /\ UNCHANGED <<globalOperationCounter, now, connector, address, ledger,
                   rejections, hook, console, ended, owed, staking, meals>>

NextEstimate ==
    \/ \E t \in EstimateInstants : Plain(Advance(t))
    \/ CallEstimate

SpecEstimate == Init /\ [][NextEstimate]_vars

\* C12: estimateCurrentRewards(base, rate, count, t0) at clock time t returns
\* base + rate * count * (t - t0) / 1000 when count > 0 and base when
\* count = 0, whatever t - t0 is.
C12_EstimateIsLinearExtrapolation ==
    call.fn = "estimateCurrentRewards"
    => /\ call.minerCount > 0
          => call.result = call.baseRewards
                           + call.gemsPerSecond * call.minerCount
                             * (call.at - call.lastUpdateTime)
       /\ call.minerCount = 0 => call.result = call.baseRewards

\* 100 GEMS, 0.01 GEMS per second, 5 miners, 100 seconds later: 105 GEMS.
C12_Witness ==
    /\ call.fn = "estimateCurrentRewards"
    /\ call.baseRewards = 10000000
    /\ call.gemsPerSecond = 1
    /\ call.minerCount = 5
    /\ call.at - call.lastUpdateTime = 100000
    /\ call.result = 10500000

----------------------------------------------------------------------------
(* Failures inside a cycle of useExpeditions *)

\* The getStakedMiners read of instance i rejects in this step.
StakedMinersReadFails(i) ==
    CycleStep(i, "stakedMiners") /\ rejections' = rejections + 1

\* C14: a cycle whose getStakedMiners read failed does not set initialized to
\* true: the step in which the read rejects (and which, the fallback list
\* being empty, runs on to the commit) leaves initialized false.
C14_FailedReadNeverInitializes ==
    [][\A i \in Instances :
          StakedMinersReadFails(i)
          => (hook'[i].initialized => hook[i].initialized)]_vars

\* The cycle of instance i throws in this step: provider or signer
\* acquisition rejects.
CycleThrows(i) ==
    CycleStep(i, "provider") /\ rejections' = rejections + 1

\* C15: with the wallet connected, the start of a cycle and its failure leave
\* initialized, statuses, lastValidStakedMiners and cooldownTime as they were;
\* the failure ends the cycle and, when the cycle is still current, sets error
\* and resets loading.
C15_FailedCycleKeepsSnapshot ==
    [][\A i \in Instances :
          /\ (CycleStarts(i) \/ CycleThrows(i))
             => /\ hook'[i].initialized = hook[i].initialized
                /\ hook'[i].statuses = hook[i].statuses
                /\ hook'[i].lastValidStakedMiners = hook[i].lastValidStakedMiners
                /\ hook'[i].cooldownTime = hook[i].cooldownTime
          /\ CycleThrows(i)
             => /\ ~InFlight(i)'
                /\ IsCurrent(hook[i].cyc.opId, globalOperationCounter)
                   => (hook'[i].error = "fetch error" /\ ~hook'[i].loading)]_vars

\* A cycle failed after an earlier cycle of the instance had committed statuses.
C15_Witness ==
    \E i \in Instances :
        /\ hook[i].initialized
        /\ hook[i].statuses # <<>>
        /\ hook[i].error = "fetch error"
        /\ ~hook[i].loading
        /\ ~InFlight(i)

\* The status that instance i holds for the miner its cycle is reading.
LastStatusOfCurrentMiner(i) ==
    LET c == hook[i].cyc
    IN {hook[i].statuses[k] : k \in {n \in 1..Len(hook[i].statuses) :
            hook[i].statuses[n].minerId = c.stakedMiners[c.idx]}}

\* C18: when the expeditions() read of a miner rejects, the values that go
\* into the miner's new status are those of its last committed status, and the
\* cycle goes on to the miner's meal read.
C18_FailedMinerReadKeepsLastStatus ==
    [][\A i \in Instances :
          (CycleStep(i, "expedition") /\ rejections' = rejections + 1)
          => /\ hook'[i].cyc.pc = "meal"
             /\ \A s \in LastStatusOfCurrentMiner(i) :
                   /\ hook'[i].cyc.startTimeValue = s.startTime
                   /\ hook'[i].cyc.endTimeValue = s.endTime
                   /\ hook'[i].cyc.completedValue = s.completed
                   /\ hook'[i].cyc.isOnExpedition = s.onExpedition]_vars

\* C19: after the unmount cleanup of an instance no debounce timer of it is
\* pending and no cycle of it is started.
C19_UnmountLeavesNothingPending ==
    \A i \in Instances :
        hook[i].lifecycle = "unmounted"
        => /\ hook[i].timers = {}
           /\ InFlight(i) => hook[i].cyc.opId < globalOperationCounter

----------------------------------------------------------------------------
(* useMealStatuses.fetchStakedMiners *)

\* fetchStakedMiners is called (by the effect on it, or through refetch): with
\* no connector or address it returns the fallback list at once; otherwise the
\* getStakedMiners read is in flight, with the lastValidStakedMiners of the
\* render that made the callback.
MealsFetchStart ==
    /\ meals' = IF connector = Null \/ address = Null
                THEN [meals EXCEPT !.returned = meals.lastValidStakedMiners]
                ELSE [meals EXCEPT !.reads = @ \cup {meals.lastValidStakedMiners}]
    /\ meals' # meals
    /\ console' = NoLog
    /\ UNCHANGED <<globalOperationCounter, now, connector, address, ledger,
                   rejections, hook, ended, owed, staking, call>>

\* What fetchStakedMiners does after await stakingContract.getStakedMiners.
AfterMealsRead(m, closure, answer) ==
    IF answer.ok /\ Len(answer.value) > 0
    THEN [m EXCEPT !.stakedMiners = answer.value,
                   !.lastValidStakedMiners = answer.value,
                   !.returned = answer.value,
                   !.reads = @ \ {closure}]
    ELSE [m EXCEPT !.returned = closure,
                   !.reads = @ \ {closure}]

MealsFetchDone ==
    /\ \E closure \in meals.reads, answer \in Outcomes(ledger.stakedMiners) :
          /\ meals' = AfterMealsRead(meals, closure, answer)
          /\ rejections' = Counted(answer)
    /\ console' = NoLog
    /\ UNCHANGED <<globalOperationCounter, now, connector, address, ledger,
                   hook, ended, owed, staking, call>>

\* The wallet stakes or unstakes miners on the chain.
StakeChanges ==
    /\ \E l \in Ledgers : l # ledger /\ ledger' = l
    /\ console' = NoLog
    /\ UNCHANGED <<globalOperationCounter, now, connector, address, rejections,
                   hook, ended, owed, staking, call, meals>>

\* A wallet step; the useMealStatuses instance re-renders with it.
OfWallet(A) == A /\ UNCHANGED <<ended, owed, staking, call, meals>>

NextMeals ==
    \/ OfWallet(ProviderSetConnector)
    \/ \E a \in Addresses : OfWallet(ProviderSetAddress(a))
    \/ OfWallet(ProviderDisconnect)
    \/ StakeChanges
    \/ MealsFetchStart
    \/ MealsFetchDone

SpecMeals == Init /\ [][NextMeals]_vars

\* stakedMinerCount of the hook's return value
stakedMinerCount(m) == Len(m.stakedMiners)

\* C17: when the getStakedMiners read of useMealStatuses resolves with the
\* empty list, fetchStakedMiners returns the empty list, lastValidStakedMiners
\* becomes empty and stakedMinerCount becomes 0.
C17_EmptyReadIsTrusted ==
    [][( /\ meals'.reads # meals.reads
         /\ Cardinality(meals'.reads) < Cardinality(meals.reads)
         /\ rejections' = rejections
         /\ ledger.stakedMiners = <<>> )
       => /\ meals'.returned = <<>>
          /\ meals'.lastValidStakedMiners = <<>>
          /\ stakedMinerCount(meals') = 0]_vars

----------------------------------------------------------------------------
(* StakingSyncService and useStaking: operations *)

\* GEMS_PER_SECOND of the staking contract, and what getPendingRewards can
\* answer at the time of a read
GemsPerSecond == 1
PendingChoices == {0, 5000}

\* The data that getStakingData returns when its reads resolve
SyncedData(value, t) ==
    [stakedMiners |-> value.stakedMiners,
     stakedMinerCount |-> Len(value.stakedMiners),
     pendingRewards |-> value.pendingRewards,
     gemsPerSecond |-> value.gemsPerSecond,
     lastSyncTimestamp |-> t]

\* "Return fallback data to prevent UI crashes"
FallbackData(t) ==
    [stakedMiners |-> <<>>,
     stakedMinerCount |-> 0,
     pendingRewards |-> 0,
     gemsPerSecond |-> 0,
     lastSyncTimestamp |-> t]

\* getStakingData, from the outcome of its contract reads
getStakingData(answer, t) ==
    IF answer.ok THEN SyncedData(answer.value, t) ELSE FallbackData(t)

setupWithoutClear(s, baseRewards, gemsPerSecond, minerCount, lastUpdateTime, svc) ==
    LET interval == [baseRewards |-> baseRewards,
                     gemsPerSecond |-> gemsPerSecond,
                     minerCount |-> minerCount,
                     lastUpdateTime |-> lastUpdateTime,
                     syncService |-> svc]
    IN IF minerCount = 0
       THEN s
       ELSE [s EXCEPT !.intervals = @ \cup {interval},
                      !.rewardsIntervalRef = {interval}]

\* setupRewardsEstimation, made by a render whose syncService was svc
setupRewardsEstimation(s, baseRewards, gemsPerSecond, minerCount, lastUpdateTime, svc) ==
    LET cleared == [s EXCEPT !.intervals = @ \ s.rewardsIntervalRef]
        interval == [baseRewards |-> baseRewards,
                     gemsPerSecond |-> gemsPerSecond,
                     minerCount |-> minerCount,
                     lastUpdateTime |-> lastUpdateTime,
                     syncService |-> svc]
    IN IF minerCount = 0
       THEN cleared
       ELSE [cleared EXCEPT !.intervals = @ \cup {interval},
                            !.rewardsIntervalRef = {interval}]

\* setState of an unmounted component is dropped
SetStakingState(s, state) ==
    IF s.lifecycle = "mounted" THEN [s EXCEPT !.state = state] ELSE s

\* The setState of handleSyncUpdate, of the manualSync callback and of the
\* direct reads
WithData(state, data) ==
    [state EXCEPT !.stakedMiners = data.stakedMiners,
                  !.stakedMinerCount = data.stakedMinerCount,
                  !.pendingRewards = data.pendingRewards,
                  !.estimatedRewards = data.pendingRewards,
                  !.gemsPerSecond = data.gemsPerSecond,
                  !.lastRewardsUpdate = data.lastSyncTimestamp,
                  !.isLoading = FALSE]

\* handleSyncUpdate: made by setupAutoSync, a useCallback with no dependencies,
\* so its setupRewardsEstimation is that of the first render (syncService null)
handleSyncUpdate(s, data) ==
    setupRewardsEstimation(
        SetStakingState(s, [WithData(s.state, data) EXCEPT !.autoSyncEnabled = TRUE]),
        data.pendingRewards, data.gemsPerSecond, data.stakedMinerCount,
        data.lastSyncTimestamp, InitialStaking.syncService)

\* The callback that refreshStakingData gives to manualSync, and the tail of
\* its direct reads; svc is the syncService of the render that made it
handleRefresh(s, data, svc) ==
    setupRewardsEstimation(
        SetStakingState(s, WithData(s.state, data)),
        data.pendingRewards, data.gemsPerSecond, data.stakedMinerCount,
        data.lastSyncTimestamp, svc)

\* A read in flight; orphan records that the effect cleanup ran after it began
Read(svc, via, closure) ==
    [svc |-> svc, via |-> via, closure |-> closure, orphan |-> FALSE]

\* The cleanup of the wallet effect
EffectCleanup(s) ==
    [s EXCEPT !.syncIntervals = @ \ s.cleanupSyncRef,
              !.cleanupSyncRef = {},
              !.intervals = @ \ s.rewardsIntervalRef,
              !.rewardsIntervalRef = {},
              !.reads = {[r EXCEPT !.orphan = TRUE] : r \in @}]

\* now - this.lastSyncTimestamp >= MIN_SYNC_INTERVAL, in manualSync
SyncIsDue(s, t) == t - s.lastSyncTimestamp[s.syncService] >= MIN_SYNC_INTERVAL

\* refreshStakingData up to its first await, in a render with this address.
\* When manualSync skips the read nothing is awaited but fetchAvailableMiners,
\* which leaves isLoading alone, and the promise settles.
StartRefresh(s, addr, t) ==
    IF addr = Null \/ s.syncService = 0
    THEN s
    ELSE LET loading == SetStakingState(s, [s.state EXCEPT !.isLoading = TRUE])
         IN IF s.state.autoSyncEnabled
            THEN IF SyncIsDue(s, t)
                 THEN [loading EXCEPT !.reads = @ \cup {Read(s.syncService, "manual", s.syncService)}]
                 ELSE loading
            ELSE [loading EXCEPT !.reads = @ \cup {Read(s.syncService, "direct", s.syncService)}]

\* The body of the wallet effect: new services, refreshStakingData(),
\* setupAutoSync(address, syncService)
EffectBody(s, conn, addr, t) ==
    LET seen == [s EXCEPT !.seen = [connector |-> conn, address |-> addr]]
        k == s.created + 1
        refreshed == StartRefresh(seen, addr, t)
    IN IF conn = Null \/ addr = Null
       THEN seen
       ELSE [refreshed EXCEPT !.created = k,
                              !.syncService = k,
                              !.reads = @ \cup {Read(k, "auto", 0)},
                              !.syncIntervals = @ \cup {[svc |-> k, since |-> t]},
                              !.cleanupSyncRef = {[svc |-> k, since |-> t]}]
----------------------------------------------------------------------------
(* useStaking: effects, reads and interval ticks *)

\* What the staking steps leave alone
besideStaking == <<globalOperationCounter, connector, address, ledger, hook,
                   console, ended, owed, call, meals>>

\* The bounds on the objects of one behaviour
WithinStakingBounds(s) ==
    /\ s.created <= MaxServices
    /\ Cardinality(s.reads) <= MaxStakingReads

\* First render and first run of the wallet effect
StakingMount ==
    /\ staking.lifecycle = "new"
    /\ staking' = EffectBody([staking EXCEPT !.lifecycle = "mounted"],
                             connector, address, now)
    /\ WithinStakingBounds(staking')
    /\ UNCHANGED <<now, rejections>>
    /\ UNCHANGED besideStaking

\* [connector, isConnected, address] changed: cleanup, then the effect again
StakingWalletEffect ==
    /\ staking.lifecycle = "mounted"
    /\ staking.seen # [connector |-> connector, address |-> address]
    /\ staking' = EffectBody(EffectCleanup(staking), connector, address, now)
    /\ WithinStakingBounds(staking')
    /\ UNCHANGED <<now, rejections>>
    /\ UNCHANGED besideStaking

StakingUnmount ==
    /\ staking.lifecycle = "mounted"
    /\ staking' = [EffectCleanup(staking) EXCEPT !.lifecycle = "unmounted"]
    /\ UNCHANGED <<now, rejections>>
    /\ UNCHANGED besideStaking

\* A caller of refreshStakingData, in the current render
RefreshStakingData ==
    /\ staking.lifecycle = "mounted"
    /\ staking.seen = [connector |-> connector, address |-> address]
    /\ staking' = StartRefresh(staking, address, now)
    /\ staking' # staking
    /\ WithinStakingBounds(staking')
    /\ UNCHANGED <<now, rejections>>
    /\ UNCHANGED besideStaking

\* A tick of the interval of StakingSyncService.setupAutoSync
SyncTick ==
    /\ \E i \in staking.syncIntervals :
        /\ now - i.since >= MIN_SYNC_INTERVAL
        /\ staking' = [staking EXCEPT !.reads = @ \cup {Read(i.svc, "auto", 0)}]
    /\ staking'.reads # staking.reads
    /\ WithinStakingBounds(staking')
    /\ UNCHANGED <<now, rejections>>
    /\ UNCHANGED besideStaking

\* What the staking contract answers to the reads of one call
ContractValues ==
    { [stakedMiners |-> ledger.stakedMiners,
       pendingRewards |-> p,
       gemsPerSecond |-> GemsPerSecond] : p \in PendingChoices }

\* this.lastSyncTimestamp = Date.now(), after the reads of getStakingData
Synced(s, svc, answer, t) ==
    IF answer.ok THEN [s EXCEPT !.lastSyncTimestamp[svc] = t] ELSE s

\* getStakingData(...).then(data => callback(data)) of setupAutoSync
AutoReadDone ==
    /\ \E r \in staking.reads, v \in ContractValues :
        /\ r.via = "auto"
        /\ \E answer \in Outcomes(v) :
            /\ rejections' = Counted(answer)
            /\ staking' =
                 handleSyncUpdate(
                     Synced([staking EXCEPT !.reads = @ \ {r}], r.svc, answer, now),
                     getStakingData(answer, now))
    /\ UNCHANGED now
    /\ UNCHANGED besideStaking

\* manualSync after its await
ManualSyncDone ==
    /\ \E r \in staking.reads, v \in ContractValues :
        /\ r.via = "manual"
        /\ \E answer \in Outcomes(v) :
            /\ rejections' = Counted(answer)
            /\ staking' =
                 handleRefresh(
                     Synced([staking EXCEPT !.reads = @ \ {r}], r.svc, answer, now),
                     getStakingData(answer, now), r.closure)
    /\ UNCHANGED now
    /\ UNCHANGED besideStaking

\* The direct reads of refreshStakingData: a rejection goes to its catch,
\* which sets the error message only
DirectReadDone ==
    /\ \E r \in staking.reads, v \in ContractValues :
        /\ r.via = "direct"
        /\ \E answer \in Outcomes(v) :
            /\ rejections' = Counted(answer)
            /\ staking' =
                 LET done == [staking EXCEPT !.reads = @ \ {r}]
                 IN IF answer.ok
                    THEN handleRefresh(done, SyncedData(answer.value, now), r.closure)
                    ELSE SetStakingState(done, [done.state EXCEPT !.isLoading = FALSE])
    /\ UNCHANGED now
    /\ UNCHANGED besideStaking

\* The callback of reward-estimation interval i
RewardsTickOf(i) ==
    /\ i \in staking.intervals
    /\ now - i.lastUpdateTime >= 1000
    /\ staking' =
         IF i.syncService # 0
         THEN SetStakingState(staking,
                  [staking.state EXCEPT !.estimatedRewards =
                      estimateCurrentRewards(i.baseRewards, i.gemsPerSecond,
                                             i.minerCount, i.lastUpdateTime, now)])
         ELSE staking
    /\ UNCHANGED <<globalOperationCounter, now, connector, address, ledger,
                   rejections, hook, console, ended, owed, meals>>

\* A tick of the interval of setupRewardsEstimation
RewardsTick ==
    \E i \in staking.intervals : RewardsTickOf(i) /\ UNCHANGED call

\* The clock of the staking page: reward ticks and one sync period
StakingStart == StartTime + MIN_SYNC_INTERVAL
StakingInstants ==
    {StakingStart + e : e \in {0, 1000, 2000, MIN_SYNC_INTERVAL, MIN_SYNC_INTERVAL + 1000}}

InitStaking ==
    /\ globalOperationCounter = 0
    /\ now = StakingStart
    /\ connector = Null
    /\ address = Null
    /\ ledger \in Ledgers
    /\ rejections = 0
    /\ hook = [i \in Instances |-> InitialHook]
    /\ console = NoLog
    /\ ended = [i \in Instances |-> 0]
    /\ owed = [i \in Instances |-> FALSE]
    /\ staking = InitialStaking
    /\ call = NoCall
    /\ meals = InitialMeals

NextStaking ==
    \/ OfWallet(ProviderSetConnector)
    \/ \E a \in Addresses : OfWallet(ProviderSetAddress(a))
    \/ OfWallet(ProviderDisconnect)
    \/ \E t \in StakingInstants : Plain(Advance(t))
    \/ StakingMount
    \/ StakingWalletEffect
    \/ StakingUnmount
    \/ RefreshStakingData
    \/ SyncTick
    \/ AutoReadDone
    \/ ManualSyncDone
    \/ DirectReadDone
    \/ RewardsTick

SpecStaking == InitStaking /\ [][NextStaking]_vars

----------------------------------------------------------------------------
(* C16 *)

\* A step in which a getStakingData read of the running auto-sync fails
AutoSyncReadFails ==
    /\ rejections' = rejections + 1
    /\ \E r \in staking.reads :
        r.via = "auto" /\ ~r.orphan /\ r \notin staking'.reads

\* C16: with auto-sync, when a getStakingData read fails after an earlier sync
\* delivered a non-empty stakedMiners list, the hook state keeps the
\* stakedMiners, stakedMinerCount and pendingRewards of that earlier sync.
C16_FailedSyncKeepsStakingData ==
    [][(/\ AutoSyncReadFails
        /\ staking.lifecycle = "mounted"
        /\ staking.state.autoSyncEnabled
        /\ staking.state.stakedMiners # <<>>)
       => /\ staking'.state.stakedMiners = staking.state.stakedMiners
          /\ staking'.state.stakedMinerCount = staking.state.stakedMinerCount
          /\ staking'.state.pendingRewards = staking.state.pendingRewards]_vars

----------------------------------------------------------------------------
(* C20 *)

\* A step in which a read that began before the effect cleanup completes,
\* while no later run of the effect has set up a sync
OrphanReadCompletes ==
    /\ staking.cleanupSyncRef = {}
    /\ \E r \in staking.reads : r.orphan /\ r \notin staking'.reads

\* C20: after the cleanup of the wallet effect has run, a getStakingData call
\* that started before it and completes after it writes nothing into the hook
\* state, and no reward-estimation interval exists or is created.
C20_CleanupSilencesReads ==
    [][OrphanReadCompletes
       => /\ staking'.state = staking.state
          /\ staking'.intervals = {}]_vars

----------------------------------------------------------------------------
(* C13 *)

\* A step that completes no read, hence is not an authoritative update
NoReadCompletes == Cardinality(staking'.reads) >= Cardinality(staking.reads)

\* The live reward-estimation intervals whose ticks write the state
WritingIntervals(s) ==
    IF s.lifecycle = "mounted"
    THEN {i \in s.intervals : i.syncService # 0}
    ELSE {}

\* C13: between two consecutive authoritative updates the values taken by
\* estimatedRewards are non-decreasing, and every interval whose ticks write
\* was created for the latest update: none created for an earlier update
\* writes after a later one.
C13_EstimateNonDecreasingBetweenUpdates ==
    [][/\ NoReadCompletes
          => staking'.state.estimatedRewards >= staking.state.estimatedRewards
       /\ \A i \in WritingIntervals(staking') :
            /\ i.baseRewards = staking'.state.pendingRewards
            /\ i.lastUpdateTime = staking'.state.lastRewardsUpdate]_vars

\* After an earlier sync enabled auto-sync, a tick of the interval of a later
\* update has raised the estimate above the rewards of that update.
C13_Witness ==
    /\ staking.lifecycle = "mounted"
    /\ staking.state.autoSyncEnabled
    /\ staking.state.estimatedRewards > staking.state.pendingRewards
    /\ WritingIntervals(staking) # {}

----------------------------------------------------------------------------
(* C21 *)

\* A step in which mounted instance i takes note of a wallet address that is
\* not null and differs from the one it knew
AddressChangeSeen(i) ==
    /\ hook[i].lifecycle = "mounted"
    /\ hook'[i].walletRef.address # hook[i].walletRef.address
    /\ hook'[i].walletRef.address # Null

\* C21: whenever the wallet address changes to a different non-null address
\* (null -> address on connect included, the connector unchanged), the change
\* triggers a forced fetch for the new address, and no statuses read for the
\* previous address remain exposed after it.
C21_AddressChangeForcesFetch ==
    [][\A i \in Instances :
          AddressChangeSeen(i)
          => /\ \E t \in hook'[i].timers : t.force
             /\ hook'[i].statuses = <<>>]_vars

----------------------------------------------------------------------------
(* C22 *)

\* Mounted instance i has processed the loss of the identity: its walletRef
\* holds the wallet of the provider, and the connector or the address is null
IdentityLossProcessed(i) ==
    /\ hook[i].lifecycle = "mounted"
    /\ hook[i].walletRef = [connector |-> connector, address |-> address]
    /\ NoWallet(hook[i])

\* C22: once the identity is unavailable and the hook has processed that
\* change, statuses is empty and initialized is false, until the identity is
\* available again; a cycle in flight at the loss does not repopulate them.
C22_NoIdentityNoStatuses ==
    \A i \in Instances :
        IdentityLossProcessed(i)
        => hook[i].statuses = <<>> /\ ~hook[i].initialized

----------------------------------------------------------------------------
(* C23 *)

\* The cycle in flight of instance i is the current operation
CurrentCycle(i, counter) ==
    InFlight(i) /\ IsCurrent(hook[i].cyc.opId, counter)

\* C23: instances mounted in the same page do not invalidate each other: a
\* step that is not of instance i (another instance starts a cycle, or is
\* unmounted) leaves the cycle in flight of i current, so that its results are
\* not discarded.
C23_InstancesDoNotCrossInvalidate ==
    [][\A i \in Instances :
          (CurrentCycle(i, globalOperationCounter) /\ hook'[i] = hook[i])
          => CurrentCycle(i, globalOperationCounter')]_vars

----------------------------------------------------------------------------
(* C29 *)

\* The finally block of a cycle of mounted instance i ran in this step
CycleFinishes(i) ==
    /\ hook'[i].lifecycle = "mounted"
    /\ hook[i].fetchInProgressRef
    /\ ~hook'[i].fetchInProgressRef

\* C29: whenever a fetch cycle of an instance has finished (its finally block
\* ran and fetchInProgressRef is false again) the loading flag of the instance
\* is false, also when the cycle was aborted or discarded as superseded.
C29_FinishedCycleClearsLoading ==
    [][\A i \in Instances : CycleFinishes(i) => ~hook'[i].loading]_vars

----------------------------------------------------------------------------
(* C24 and C30 *)

\* refreshStakingData passed its two guards in this step: it is the only
\* writer of isLoading = true
RefreshCalled ==
    /\ staking'.lifecycle = "mounted"
    /\ ~staking.state.isLoading
    /\ staking'.state.isLoading

\* The reads that refreshStakingData began in this step
RefreshReadsBegun ==
    {r \in staking'.reads \ staking.reads : r.via \in {"manual", "direct"}}

\* C24: every call of refreshStakingData made with initialised services
\* performs a fresh chain read, however recently the last sync happened.
C24_RefreshAlwaysReads ==
    [][RefreshCalled => RefreshReadsBegun # {}]_vars

\* The promise of a refreshStakingData call settles in this step: its read
\* completes, or it began no read
RefreshSettles ==
    /\ staking'.lifecycle = "mounted"
    /\ \/ \E r \in staking.reads :
             r.via \in {"manual", "direct"} /\ r \notin staking'.reads
       \/ RefreshCalled /\ RefreshReadsBegun = {}

\* C30: when the promise returned by refreshStakingData settles, isLoading is
\* false, on every path that set it to true.
C30_SettledRefreshClearsLoading ==
    [][RefreshSettles => ~staking'.state.isLoading]_vars

----------------------------------------------------------------------------
(* C26 *)

\* A tick, with the callback that ran recorded in call
ObservedRewardsTick ==
    \E i \in staking.intervals :
        /\ RewardsTickOf(i)
        /\ call' = [fn |-> "rewardsTick", interval |-> i, at |-> now]

\* The staking page with the wallet connected throughout, over the first
\* seconds after it mounts
RewardsInstants == {StakingStart + e : e \in {0, 1000, 2000}}

InitRewards ==
    /\ globalOperationCounter = 0
    /\ now = StakingStart
    /\ connector = ConnectorObject
    /\ address \in Addresses
    /\ ledger \in Ledgers
    /\ rejections = 0
    /\ hook = [i \in Instances |-> InitialHook]
    /\ console = NoLog
    /\ ended = [i \in Instances |-> 0]
    /\ owed = [i \in Instances |-> FALSE]
    /\ staking = InitialStaking
    /\ call = NoCall
    /\ meals = InitialMeals

NextRewards ==
    \/ \E t \in RewardsInstants : Plain(Advance(t))
    \/ StakingMount
    \/ StakingUnmount
    \/ RefreshStakingData
    \/ AutoReadDone
    \/ DirectReadDone
    \/ ObservedRewardsTick

SpecRewards == InitRewards /\ [][NextRewards]_vars

\* The callback of a reward-estimation interval ran in this step, on a
\* mounted hook
RewardsTickRuns ==
    /\ call' # call
    /\ call'.fn = "rewardsTick"
    /\ staking.lifecycle = "mounted"

\* C26: after an update that reports stakedMinerCount > 0, every tick of the
\* reward-estimation interval sets estimatedRewards to estimateCurrentRewards
\* of the update's rewards, rate, count and timestamp at the time of the tick.
C26_TickWritesEstimate ==
    [][RewardsTickRuns
       => staking'.state.estimatedRewards =
              estimateCurrentRewards(call'.interval.baseRewards,
                                     call'.interval.gemsPerSecond,
                                     call'.interval.minerCount,
                                     call'.interval.lastUpdateTime, call'.at)]_vars

----------------------------------------------------------------------------
(* C28 *)

\* The getStakingData reads of service k among rs: those of setupAutoSync
\* and of manualSync
SyncReads(rs, k) ==
    {r \in rs : r.svc = k /\ r.via \in {"auto", "manual"}}

\* The getStakingData reads that begin in this step
SyncReadsBegun ==
    {r \in staking'.reads \ staking.reads :
        ~r.orphan /\ r.via \in {"auto", "manual"}}

\* C28: for one StakingSyncService instance two synchronisations start at
\* least MIN_SYNC_INTERVAL apart; in particular none starts while another
\* sync of the instance is still in flight.
C28_SyncsDoNotOverlap ==
    [][\A r \in SyncReadsBegun : SyncReads(staking.reads, r.svc) = {}]_vars

----------------------------------------------------------------------------
(* useMealStatuses.fetchStatuses: timers, refetch and cycles *)

MaxMealCycles == 2    \* fetchStatuses calls in one behaviour

\* now - lastFetchTime < 15000
MealsRefetchCooldownMs == 15000
\* setTimeout(() => fetchStatuses(true), 500)
InitialFetchDelayMs == 500
\* Number(await food.getMealCount())
MealCount == 1

\* setState of an unmounted component is dropped
SetMeals(m, written) == IF m.lifecycle = "mounted" THEN written ELSE m

\* What a fetchStatuses callback closes over: the wallet, lastFetchTime and,
\* through fetchStakedMiners, lastValidStakedMiners of the render that made it
FirstRenderClosure(m) ==
    [connector |-> m.first.connector, address |-> m.first.address,
     lastValidStakedMiners |-> InitialMeals.lastValidStakedMiners,
     lastFetchTime |-> InitialMeals.lastFetchTime]

CurrentClosure(m, conn, addr) ==
    [connector |-> conn, address |-> addr,
     lastValidStakedMiners |-> m.lastValidStakedMiners,
     lastFetchTime |-> m.lastFetchTime]

\* fetchStatuses(force) up to await fetchStakedMiners(); seq numbers the calls
\* that pass the cooldown, connected records whether the wallet was connected
\* at the call
fetchMealStatuses(m, by, force, closure, t, connected) ==
    IF ~force /\ t - closure.lastFetchTime < MealsRefetchCooldownMs
    THEN m
    ELSE LET written == SetMeals(m, [m EXCEPT !.lastFetchTime = t, !.loading = TRUE])
         IN [written EXCEPT
                !.triggered = @ + 1,
                !.cycles = @ \cup {[seq |-> m.triggered + 1, by |-> by, pc |-> "miners",
                                    closure |-> closure, currentMiners |-> <<>>,
                                    connected |-> connected]}]

\* The effect on [refreshInterval]: both timers are made in the first render
MealsMount ==
    /\ meals.lifecycle = "new"
    /\ meals' = [meals EXCEPT !.lifecycle = "mounted",
                              !.first = [connector |-> connector, address |-> address],
                              !.initialFetchTimer = {now + InitialFetchDelayMs},
                              !.interval = TRUE]
    /\ UNCHANGED <<globalOperationCounter, now, connector, address, ledger,
                   rejections, hook, console, ended, owed, staking, call>>

\* The cleanup of the effect on [refreshInterval]
MealsUnmount ==
    /\ meals.lifecycle = "mounted"
    /\ meals' = [meals EXCEPT !.lifecycle = "unmounted",
                              !.initialFetchTimer = {},
                              !.interval = FALSE]
    /\ UNCHANGED <<globalOperationCounter, now, connector, address, ledger,
                   rejections, hook, console, ended, owed, staking, call>>

\* setTimeout(() => fetchStatuses(true), 500)
MealsInitialTimer ==
    /\ \E due \in meals.initialFetchTimer :
        /\ now >= due
        /\ meals' = fetchMealStatuses([meals EXCEPT !.initialFetchTimer = {}],
                                      "timer", TRUE, FirstRenderClosure(meals), now,
                                      WalletConnected)
    /\ meals'.triggered <= MaxMealCycles
    /\ UNCHANGED <<globalOperationCounter, now, connector, address, ledger,
                   rejections, hook, console, ended, owed, staking, call>>

\* setInterval(() => fetchStatuses(false), refreshInterval)
MealsIntervalTick ==
    /\ meals.interval
    /\ meals' = fetchMealStatuses(meals, "interval", FALSE, FirstRenderClosure(meals),
                                  now, WalletConnected)
    /\ meals' # meals
    /\ meals'.triggered <= MaxMealCycles
    /\ UNCHANGED <<globalOperationCounter, now, connector, address, ledger,
                   rejections, hook, console, ended, owed, staking, call>>

\* refetch = () => fetchStatuses(true), of the current render
MealsRefetch ==
    /\ meals.lifecycle = "mounted"
    /\ meals' = fetchMealStatuses(meals, "refetch", TRUE,
                                  CurrentClosure(meals, connector, address), now,
                                  WalletConnected)
    /\ meals'.triggered <= MaxMealCycles
    /\ UNCHANGED <<globalOperationCounter, now, connector, address, ledger,
                   rejections, hook, console, ended, owed, staking, call>>

\* fetchStatuses after await fetchStakedMiners() returned currentMiners
AfterCurrentMiners(m, c, currentMiners) ==
    IF c.closure.connector = Null \/ Len(currentMiners) = 0
    THEN [SetMeals(m, [m EXCEPT !.loading = FALSE]) EXCEPT !.cycles = m.cycles \ {c}]
    ELSE [m EXCEPT !.cycles = (m.cycles \ {c}) \cup
                       {[c EXCEPT !.pc = "canEat", !.currentMiners = currentMiners]}]

\* fetchStakedMiners of the closure of cycle c, and what it returns
MinersOfCycle(m, c, answer) ==
    IF c.closure.connector = Null \/ c.closure.address = Null
    THEN [m EXCEPT !.returned = c.closure.lastValidStakedMiners]
    ELSE LET after == AfterMealsRead(m, c.closure.lastValidStakedMiners, answer)
         IN [SetMeals(m, after) EXCEPT !.returned = after.returned, !.reads = m.reads]

MealsMinersDone ==
    /\ \E c \in meals.cycles :
        /\ c.pc = "miners"
        /\ IF c.closure.connector = Null \/ c.closure.address = Null
           THEN /\ meals' = AfterCurrentMiners(MinersOfCycle(meals, c, Rejected), c,
                                               c.closure.lastValidStakedMiners)
                /\ UNCHANGED rejections
           ELSE \E answer \in Outcomes(ledger.stakedMiners) :
                  /\ meals' = LET read == MinersOfCycle(meals, c, answer)
                              IN AfterCurrentMiners(read, c, read.returned)
                  /\ rejections' = Counted(answer)
    /\ UNCHANGED <<globalOperationCounter, now, connector, address, ledger,
                   hook, console, ended, owed, staking, call>>

\* What canEatMeal(miner, id) can answer: [canEat, timeUntil]
CanEatAnswers ==
    {[canEat |-> TRUE, time |-> 0], [canEat |-> FALSE, time |-> 3],
     [canEat |-> FALSE, time |-> 7]}

RECURSIVE worstTimeUntil(_)
worstTimeUntil(results) ==
    IF results = <<>>
    THEN 0
    ELSE LET rest == worstTimeUntil(Tail(results))
             t == Head(results).time
         IN IF ~Head(results).canEat /\ t > rest THEN t ELSE rest

\* The status pushed for meal id from the answers for all current miners
MealStatusOf(id, results) ==
    [id |-> id,
     canEat |-> \A k \in 1..Len(results) : results[k].canEat,
     timeUntil |-> worstTimeUntil(results)]

\* After getMealCount and the canEatMeal reads: setStatuses(newStatuses), or
\* the catch
MealsCanEatDone ==
    /\ \E c \in meals.cycles :
        /\ c.pc = "canEat"
        /\ \E results \in [1..Len(c.currentMiners) -> CanEatAnswers] :
           \E answer \in Outcomes(results) :
             /\ meals' =
                  LET done == [meals EXCEPT !.cycles = @ \ {c}]
                  IN IF answer.ok
                     THEN SetMeals(done,
                              [done EXCEPT
                                  !.statuses = [id \in 1..MealCount |->
                                                   MealStatusOf(id - 1, answer.value)],
                                  !.loading = FALSE,
                                  !.committed = c.seq])
                     ELSE SetMeals(done, [done EXCEPT !.loading = FALSE])
             /\ rejections' = Counted(answer)
    /\ UNCHANGED <<globalOperationCounter, now, connector, address, ledger,
                   hook, console, ended, owed, staking, call>>

\* The mine page: Date.now() is far from 0, the lastFetchTime of first render
MealsStart == StartTime + MealsRefetchCooldownMs
MealsInstants == {MealsStart, MealsStart + InitialFetchDelayMs}

InitMealStatuses ==
    /\ globalOperationCounter = 0
    /\ now = MealsStart
    /\ connector = Null
    /\ address = Null
    /\ ledger \in Ledgers
    /\ rejections = 0
    /\ hook = [i \in Instances |-> InitialHook]
    /\ console = NoLog
    /\ ended = [i \in Instances |-> 0]
    /\ owed = [i \in Instances |-> FALSE]
    /\ staking = InitialStaking
    /\ call = NoCall
    /\ meals = InitialMeals

NextMealStatuses ==
    \/ OfWallet(ProviderSetConnector)
    \/ \E a \in Addresses : OfWallet(ProviderSetAddress(a))
    \/ OfWallet(ProviderDisconnect)
    \/ \E t \in MealsInstants : Plain(Advance(t))
    \/ MealsMount
    \/ MealsUnmount
    \/ MealsInitialTimer
    \/ MealsIntervalTick
    \/ MealsRefetch
    \/ MealsMinersDone
    \/ MealsCanEatDone

SpecMealStatuses == InitMealStatuses /\ [][NextMealStatuses]_vars

----------------------------------------------------------------------------
(* C25 and C27 *)

\* C25: when fetchStatuses cycles of useMealStatuses overlap, statuses are
\* committed in trigger order: the statuses in state are never replaced by
\* those of a cycle that was triggered earlier.
C25_CommitsInTriggerOrder ==
    [][meals'.committed # meals.committed
       => meals'.committed > meals.committed]_vars

\* The cycles that end in this step
FinishedMealCycles ==
    {c \in meals.cycles : \A d \in meals'.cycles : d.seq # c.seq}

\* C27: once the wallet is connected and owns a staked miner, every interval
\* tick performs the canEatMeal reads and commits the resulting statuses,
\* also when the connector was not available when the hook was mounted.
C27_TickCommitsStatuses ==
    [][\A c \in FinishedMealCycles :
          ( /\ c.by = "interval"
            /\ c.connected
            /\ WalletConnected
            /\ meals.lifecycle = "mounted"
            /\ Len(ledger.stakedMiners) > 0
            /\ rejections' = rejections )
          => meals'.committed = c.seq]_vars

====
